---- MODULE Spec2Model ----
(* Model of the users resource service (UsersService) and of the k6 load   *)
(* profile runner (apps/k6/load-test.js) that drives it.                    *)
EXTENDS Integers, Sequences, FiniteSets, TLC

VARIABLES users, nextId, last, phase, setupUserId, vu, httpReqs

vars == <<users, nextId, last, phase, setupUserId, vu, httpReqs>>

(* ------------------------------------------------------------------ *)
(* Bounds                                                              *)
(* ------------------------------------------------------------------ *)
\* number of Create calls explored in the service specification
MaxCreates == 1
\* request bodies may carry an id field with a value in 1..MaxBodyId
MaxBodyId == 1
\* ids used as the :id argument of Get/Update/Delete are 1..MaxArgId
MaxArgId == 4
\* number of concurrent virtual users modelled
NumVUs == 2
\* iterations of the default function each virtual user may run
MaxIters == 2

(* ------------------------------------------------------------------ *)
(* Data                                                                *)
(* ------------------------------------------------------------------ *)
Seed ==
  << [id |-> 1, name |-> "Alice Johnson", email |-> "alice@example.com"],
     [id |-> 2, name |-> "Bob Smith", email |-> "bob@example.com"],
     [id |-> 3, name |-> "Charlie Brown", email |-> "charlie@example.com"] >>

InitialNextId == 4

EmptyBody == [f \in {} |-> 0]

\* a request body: any subset of the fields id, name, email
BodyOf(i, n, e) ==
  [f \in (IF i = 0 THEN {} ELSE {"id"}) \cup (IF n = "" THEN {} ELSE {"name"})
         \cup (IF e = "" THEN {} ELSE {"email"})
     |-> IF f = "id" THEN i ELSE IF f = "name" THEN n ELSE e]

\* the name/email parts of a body: none, a partial body (name only, as the load
\* test's PUT sends), a full body (as its POST sends)
NameEmail == { <<"", "">>, <<"X", "">>, <<"X", "x@y.com">> }

Bodies == { BodyOf(i, ne[1], ne[2]) : i \in 0..MaxBodyId, ne \in NameEmail }

ArgIds == 1..MaxArgId

(* ------------------------------------------------------------------ *)
(* UsersService                                                        *)
(* ------------------------------------------------------------------ *)
\* Array.prototype.findIndex with (u) => u.id === id; 0 stands for -1
FindIndex(us, id) ==
  IF \E i \in 1..Len(us) : us[i].id = id
  THEN CHOOSE i \in 1..Len(us) : us[i].id = id /\ \A j \in 1..(i - 1) : us[j].id # id
  ELSE 0

\* splice(index) without the delete count: drops everything from index on
Splice_noCount(us, index) == SubSeq(us, 1, index - 1)

\* Array.prototype.splice(index, 1) for an index inside the array
Splice(us, index) ==
  [j \in 1..(Len(us) - 1) |-> IF j < index THEN us[j] ELSE us[j + 1]]

\* { id: n, ...dto }: later properties of the spread overwrite earlier ones
SpreadAfterId(n, dto) ==
  [f \in {"id"} \cup DOMAIN dto |-> IF f \in DOMAIN dto THEN dto[f] ELSE n]

\* user replaced by a fresh object built from dto, keeping only the id
ObjectAssign_replace(user, dto) ==
  [f \in {"id"} \cup DOMAIN dto |-> IF f \in DOMAIN dto THEN dto[f] ELSE user[f]]

\* Object.assign(user, dto): every own property of dto is copied onto user
ObjectAssign(user, dto) ==
  [f \in DOMAIN user \cup DOMAIN dto |-> IF f \in DOMAIN dto THEN dto[f] ELSE user[f]]

findAll(us, n) ==
  [status |-> "ok", ret |-> us, users |-> us, nextId |-> n]

findOne(us, n, id) ==
  LET i == FindIndex(us, id)
  IN IF i = 0
     THEN [status |-> "NotFound", ret |-> <<>>, users |-> us, nextId |-> n]
     ELSE [status |-> "ok", ret |-> <<us[i]>>, users |-> us, nextId |-> n]

create(us, n, dto) ==
  LET user == SpreadAfterId(n, dto)
  IN [status |-> "ok", ret |-> <<user>>, users |-> Append(us, user), nextId |-> n + 1]

update(us, n, id, dto) ==
  LET found == findOne(us, n, id)
      i == FindIndex(us, id)
  IN IF found.status = "NotFound"
     THEN found
     ELSE LET user == ObjectAssign(us[i], dto)
          IN [status |-> "ok", ret |-> <<user>>,
              users |-> [us EXCEPT ![i] = user], nextId |-> n]

\* remove without the not-found check: splice(-1, 1) drops the last element
remove_noCheck(us, n, id) ==
  LET index == FindIndex(us, id)
  IN [status |-> "ok", ret |-> <<>>, nextId |-> n,
      users |-> IF index = 0
                THEN (IF Len(us) = 0 THEN us ELSE SubSeq(us, 1, Len(us) - 1))
                ELSE Splice(us, index)]

remove(us, n, id) ==
  LET index == FindIndex(us, id)
  IN IF index = 0
     THEN [status |-> "NotFound", ret |-> <<>>, users |-> us, nextId |-> n]
     ELSE [status |-> "ok", ret |-> <<>>, users |-> Splice(us, index), nextId |-> n]

(* ------------------------------------------------------------------ *)
(* Service specification: any client, any request body                 *)
(* ------------------------------------------------------------------ *)
\* no call is being answered
NoCall == [op |-> "none", id |-> 0, body |-> EmptyBody, status |-> "ok", ret |-> <<>>]

\* one call at a time: a method runs to its return (or throw) before the next
\* call is taken; last holds the call and its outcome until it is handed back
Call(op, id, body, r) ==
  /\ last = NoCall
  /\ users' = r.users
  /\ nextId' = r.nextId
  /\ last' = [op |-> op, id |-> id, body |-> body, status |-> r.status, ret |-> r.ret]

RunnerIdle == UNCHANGED <<phase, setupUserId, vu, httpReqs>>

Init ==
  /\ users = Seed
  /\ nextId = InitialNextId
  /\ last = NoCall
  /\ phase = "setup"
  /\ setupUserId = 0
  /\ vu = [v \in 1..NumVUs |-> [pc |-> "list", created |-> FALSE, newId |-> 0, iters |-> 0]]
  /\ httpReqs = {}

FindAll ==
  /\ Call("findAll", 0, EmptyBody, findAll(users, nextId))
  /\ RunnerIdle

FindOne ==
  \E id \in ArgIds :
    /\ Call("findOne", id, EmptyBody, findOne(users, nextId, id))
    /\ RunnerIdle

Create ==
  \E dto \in Bodies :
    /\ nextId < InitialNextId + MaxCreates
    /\ Call("create", 0, dto, create(users, nextId, dto))
    /\ RunnerIdle

Update ==
  \E id \in ArgIds, dto \in Bodies :
    /\ Call("update", id, dto, update(users, nextId, id, dto))
    /\ RunnerIdle

Remove ==
  \E id \in ArgIds :
    /\ Call("remove", id, EmptyBody, remove(users, nextId, id))
    /\ RunnerIdle

\* the outcome of the call is handed back to the caller
Return ==
  /\ last # NoCall
  /\ last' = NoCall
  /\ UNCHANGED <<users, nextId, phase, setupUserId, vu, httpReqs>>

Next == FindAll \/ FindOne \/ Create \/ Update \/ Remove \/ Return

Spec == Init /\ [][Next]_vars

(* ------------------------------------------------------------------ *)
(* HTTP surface and load profile runner (apps/k6/load-test.js)         *)
(* ------------------------------------------------------------------ *)
\* values Date.now() may yield while the run lasts
Stamps == {"1700000000000", "1700000000001"}

\* status code the HTTP layer answers with for a service outcome
HttpStatus(method, outcome) ==
  IF outcome = "NotFound" THEN 404
  ELSE IF method = "POST" THEN 201 ELSE 200

\* the setup() payload
SetupPayload == [name |-> "Setup User", email |-> "setup@example.com"]

\* the Write Operations group's POST payload
CreatePayload(t) == [name |-> "User " \o t, email |-> "user-" \o t \o "@test.com"]

\* the Write Operations group's PUT payload
UpdatePayload(t) == [name |-> "Updated " \o t]

\* the id the PUT of an iteration is addressed to
PutTarget(data, newId) == data

\* the iteration's DELETE addressed to the setup user instead of its own
DeleteTarget_setup(data, newId) == data

\* the id the DELETE of an iteration is addressed to
DeleteTarget(data, newId) == newId

\* the id the DELETE of teardown() is addressed to
TeardownTarget(data) == data

Record(method, outcome) == httpReqs \cup {<<method, HttpStatus(method, outcome)>>}

AllIdle == \A v \in 1..NumVUs : vu[v].pc = "list"

setup ==
  /\ phase = "setup"
  /\ LET res == findAll(users, nextId)
         createRes == create(res.users, res.nextId, SetupPayload)
     IN /\ Call("create", 0, SetupPayload, createRes)
        /\ setupUserId' = createRes.ret[1].id
        /\ httpReqs' = httpReqs \cup {<<"GET", HttpStatus("GET", res.status)>>,
                                      <<"POST", HttpStatus("POST", createRes.status)>>}
  /\ phase' = "running"
  /\ UNCHANGED vu

VuList(v) ==
  /\ phase = "running"
  /\ vu[v].pc = "list"
  /\ vu[v].iters < MaxIters
  /\ LET listRes == findAll(users, nextId)
     IN /\ Call("findAll", 0, EmptyBody, listRes)
        /\ httpReqs' = Record("GET", listRes.status)
  /\ vu' = [vu EXCEPT ![v].pc = "get"]
  /\ UNCHANGED <<phase, setupUserId>>

VuGet(v) ==
  /\ phase = "running"
  /\ vu[v].pc = "get"
  /\ LET getRes == findOne(users, nextId, 1)
     IN /\ Call("findOne", 1, EmptyBody, getRes)
        /\ httpReqs' = Record("GET", getRes.status)
  /\ vu' = [vu EXCEPT ![v].pc = "create"]
  /\ UNCHANGED <<phase, setupUserId>>

VuCreate(v) ==
  /\ phase = "running"
  /\ vu[v].pc = "create"
  /\ \E t \in Stamps :
       LET createRes == create(users, nextId, CreatePayload(t))
           status == HttpStatus("POST", createRes.status)
           created == status = 201 /\ "id" \in DOMAIN createRes.ret[1]
       IN /\ Call("create", 0, CreatePayload(t), createRes)
          /\ httpReqs' = Record("POST", createRes.status)
          /\ vu' = [vu EXCEPT ![v].pc = "put", ![v].created = created,
                              ![v].newId = createRes.ret[1].id]
  /\ UNCHANGED <<phase, setupUserId>>

VuPut(v) ==
  /\ phase = "running"
  /\ vu[v].pc = "put"
  /\ IF setupUserId # 0
     THEN \E t \in Stamps :
            LET id == PutTarget(setupUserId, vu[v].newId)
                updateRes == update(users, nextId, id, UpdatePayload(t))
            IN /\ Call("update", id, UpdatePayload(t), updateRes)
               /\ httpReqs' = Record("PUT", updateRes.status)
     ELSE UNCHANGED <<users, nextId, last, httpReqs>>
  /\ vu' = [vu EXCEPT ![v].pc = "delete"]
  /\ UNCHANGED <<phase, setupUserId>>

VuDelete(v) ==
  /\ phase = "running"
  /\ vu[v].pc = "delete"
  /\ IF vu[v].created /\ vu[v].newId # 0
     THEN LET id == DeleteTarget(setupUserId, vu[v].newId)
              deleteRes == remove(users, nextId, id)
          IN /\ Call("remove", id, EmptyBody, deleteRes)
             /\ httpReqs' = Record("DELETE", deleteRes.status)
     ELSE UNCHANGED <<users, nextId, last, httpReqs>>
  /\ vu' = [vu EXCEPT ![v].pc = "sleep"]
  /\ UNCHANGED <<phase, setupUserId>>

VuSleep(v) ==
  /\ phase = "running"
  /\ vu[v].pc = "sleep"
  /\ vu' = [vu EXCEPT ![v] = [pc |-> "list", created |-> FALSE, newId |-> 0,
                               iters |-> vu[v].iters + 1]]
  /\ UNCHANGED <<users, nextId, last, phase, setupUserId, httpReqs>>

teardown ==
  /\ phase = "running"
  /\ AllIdle
  /\ IF setupUserId # 0
     THEN LET id == TeardownTarget(setupUserId)
              res == remove(users, nextId, id)
          IN /\ Call("remove", id, EmptyBody, res)
             /\ httpReqs' = Record("DELETE", res.status)
     ELSE UNCHANGED <<users, nextId, last, httpReqs>>
  /\ phase' = "done"
  /\ UNCHANGED <<setupUserId, vu>>

Default == \E v \in 1..NumVUs :
  VuList(v) \/ VuGet(v) \/ VuCreate(v) \/ VuPut(v) \/ VuDelete(v) \/ VuSleep(v)

LoadNext == setup \/ Default \/ teardown \/ Return

LoadSpec == Init /\ [][LoadNext]_vars

(* ------------------------------------------------------------------ *)
(* Properties                                                          *)
(* ------------------------------------------------------------------ *)
Ids(us) == { us[i].id : i \in 1..Len(us) }

\* C1: in every reachable state of the service no two records of the
\* collection have the same id.
C1_UniqueIds ==
  \A i, j \in 1..Len(users) : i # j => users[i].id # users[j].id

\* C2: the record returned by the k-th Create call has id 3 + k, and that id
\* is greater than the id of every record in the collection it is appended to.
C2_CreateIdSequential ==
  [][last'.op = "create" =>
       LET k == nextId' - InitialNextId
           newId == last'.ret[1].id
       IN /\ nextId' = nextId + 1
          /\ newId = 3 + k
          /\ \A i \in Ids(users) : newId > i]_vars

\* C3: a successful Update leaves the id of the record it updates as it was,
\* whatever the body holds, and returns a record with the requested id.
C3_IdImmutable ==
  [][(last'.op = "update" /\ last'.status = "ok") =>
       LET i == FindIndex(users, last'.id)
       IN /\ users'[i].id = users[i].id
          /\ last'.ret[1].id = last'.id]_vars

\* C4: after Create the list is one longer, the new record is its last
\* element, the earlier records are unchanged, and Get with the returned id
\* returns the new record with the supplied name and email.
C4_CreateAppends ==
  [][last'.op = "create" =>
       LET new == last'.ret[1]
           got == findOne(users', nextId', new.id)
       IN /\ Len(users') = Len(users) + 1
          /\ users'[Len(users')] = new
          /\ SubSeq(users', 1, Len(users)) = users
          /\ got.status = "ok"
          /\ got.ret = <<new>>
          /\ \A f \in DOMAIN last'.body \cap {"name", "email"} :
               got.ret[1][f] = last'.body[f]]_vars

\* C5: after a successful Delete(id) the list is one shorter and a Get(id)
\* that follows immediately fails with NotFound.
C5_DeleteRemoves ==
  [][(last'.op = "remove" /\ last'.status = "ok") =>
       /\ Len(users') = Len(users) - 1
       /\ findOne(users', nextId', last'.id).status = "NotFound"]_vars

\* C6: a successful Update(id, body) sets the fields named in body and nothing
\* else: the other fields of the record, every other record, the length and
\* order of the collection and the id counter are as before.
C6_UpdateFrame ==
  [][(last'.op = "update" /\ last'.status = "ok") =>
       LET i == FindIndex(users, last'.id)
           body == last'.body
       IN /\ i # 0
          /\ Len(users') = Len(users)
          /\ \A j \in 1..Len(users) : j # i => users'[j] = users[j]
          /\ DOMAIN users'[i] = DOMAIN users[i] \cup DOMAIN body
          /\ \A f \in DOMAIN users[i] \ DOMAIN body : users'[i][f] = users[i][f]
          /\ \A f \in DOMAIN body : users'[i][f] = body[f]
          /\ nextId' = nextId]_vars

\* C6 witness: an Update with a partial body (some field named, email not) succeeded.
C6_Witness ==
  /\ last.op = "update"
  /\ last.status = "ok"
  /\ DOMAIN last.body # {}
  /\ "email" \notin DOMAIN last.body

\* C7: Get, Update or Delete with an id no record has fails with NotFound and
\* leaves the collection and the id counter as they were.
C7_NotFound ==
  [][(last'.op \in {"findOne", "update", "remove"} /\ last'.id \notin Ids(users)) =>
       /\ last'.status = "NotFound"
       /\ users' = users
       /\ nextId' = nextId]_vars

\* C7 witness: a Delete of an absent id was answered NotFound on a collection
\* from which a record had been deleted before.
C7_Witness ==
  /\ last.op = "remove"
  /\ last.status = "NotFound"
  /\ last.id \notin Ids(users)
  /\ Len(users) < Len(Seed)

\* C8: the list is in insertion order, so ids increase strictly along it;
\* Delete removes one element and keeps the order of the others; Update
\* leaves every record at its position.
C8_InsertionOrder ==
  [][/\ \A i, j \in 1..Len(users') : i < j => users'[i].id < users'[j].id
     /\ (last'.op = "remove" /\ last'.status = "ok") =>
          \E k \in 1..Len(users) :
            users' = SubSeq(users, 1, k - 1) \o SubSeq(users, k + 1, Len(users))
     /\ (last'.op = "update" /\ last'.status = "ok") =>
          /\ Len(users') = Len(users)
          /\ \A j \in 1..Len(users) : j # FindIndex(users, last'.id) => users'[j] = users[j]]_vars

\* C9: between setup and teardown the setup record is present, no virtual
\* user's DELETE is addressed to it, and every PUT was answered 200.
C9_SetupUserOwned ==
  phase = "running" =>
    /\ setupUserId \in Ids(users)
    /\ last.op = "remove" => last.id # setupUserId
    /\ \A r \in httpReqs : r[1] = "PUT" => r[2] = 200

\* C9 witness: while the run is on, a PUT was answered 200, a virtual user has
\* just deleted its own record and another one is in the middle of its iteration.
C9_Witness ==
  /\ phase = "running"
  /\ <<"PUT", 200>> \in httpReqs
  /\ last.op = "remove"
  /\ last.status = "ok"
  /\ \E v \in 1..NumVUs : vu[v].pc \in {"put", "delete"}

\* C10: once teardown has run after complete iterations, every DELETE of the
\* run was answered 200 and the collection is the seeded one again; only the
\* id counter has advanced.
C10_RunRestoresSeed ==
  phase = "done" =>
    /\ users = Seed
    /\ \A r \in httpReqs : r[1] = "DELETE" => r[2] = 200
    /\ nextId > InitialNextId

\* C10 witness: teardown has run after every virtual user completed an iteration.
C10_Witness ==
  /\ phase = "done"
  /\ \A v \in 1..NumVUs : vu[v].iters >= 1
  /\ <<"DELETE", 200>> \in httpReqs
  /\ nextId >= InitialNextId + 1 + NumVUs

====
